---- MODULE Spec2Model ----
(***************************************************************************)
(* Model of the memo application's two functional units:                   *)
(*   - the summarize endpoint  (POST handler of the /api/summarize route)  *)
(*   - the memo detail view    (MemoDetailModal React component)           *)
(*                                                                         *)
(* SpecApi drives the endpoint with arbitrary clients; Spec drives one     *)
(* mounted modal instance whose fetches are answered by the same endpoint  *)
(* code; SpecReopen is Spec with a parent that only changes the memo while *)
(* the view is closed; SpecLive is Spec with completing requests.          *)
(*                                                                         *)
(* The Korean user-facing strings of the source are rendered in English.   *)
(***************************************************************************)
EXTENDS Naturals, Sequences, FiniteSets, TLC

\* ------------------------------------------------------------------------
\* Bounds
\* ------------------------------------------------------------------------
\* number of requests one endpoint run serves
MaxRequests == 3
\* number of fetches the model lets one modal instance have outstanding
MaxInFlight == 2

\* ------------------------------------------------------------------------
\* JavaScript values that occur in bodies, env and responses
\* ------------------------------------------------------------------------
Undefined == [kind |-> "undefined", s |-> ""]
JsNull    == [kind |-> "null", s |-> ""]
JsFalse   == [kind |-> "false", s |-> ""]
JsTrue    == [kind |-> "true", s |-> ""]
Str(t)    == [kind |-> "string", s |-> t]

\* JavaScript truthiness, as used by `!content`, `!apiKey`, `data.error ||`
Truthy(v) == \/ v.kind = "true"
             \/ (v.kind = "string" /\ v.s # "")

\* template-literal interpolation `${content}`
ToText(v) == IF v.kind = "string" THEN v.s ELSE v.kind

\* ------------------------------------------------------------------------
\* The summarize endpoint
\* ------------------------------------------------------------------------
\* request bodies: not JSON at all, the JSON literal null, or a JSON value
\* from which `content` can be destructured (content Undefined = absent)
ContentValues == {Undefined, JsNull, JsFalse, JsTrue, Str(""), Str("x"), Str("y")}
Bodies == {[kind |-> "malformed", content |-> Undefined],
           [kind |-> "null", content |-> Undefined]}
          \cup {[kind |-> "value", content |-> c] : c \in ContentValues}

\* process.env.GEMINI_API_KEY
ApiKeys == {Undefined, Str(""), Str("key")}

\* thrown values: Error instances carry a message, other values do not
Thrown(isErr, msg) == [isError |-> isErr, message |-> msg]
NoThrown == Thrown(FALSE, "")

\* what the provider call (generateContent, result.response, text()) does
ProviderOutcomes ==
    {[kind |-> "text", text |-> t, thrown |-> NoThrown] : t \in {"", "s1", "s2"}}
    \cup {[kind |-> "throw", text |-> "", thrown |-> Thrown(TRUE, m)] : m \in {"quota", "blocked"}}
    \cup {[kind |-> "throw", text |-> "", thrown |-> Thrown(FALSE, "")]}
NoOutcome == [kind |-> "none", text |-> "", thrown |-> NoThrown]

Response(st, sum, err) == [status |-> st, summary |-> sum, error |-> err]
NoResponse == Response(0, Undefined, Undefined)

Instruction == "Summarize the following memo in at most 3 lines: "
Prompt(content) == Instruction \o ToText(content)

\* the catch block of POST
CatchNoMessage(thrown) == Response(500, Undefined, Str("Failed to generate summary"))
Catch(thrown) ==
    Response(500, Undefined,
             IF thrown.isError THEN Str(thrown.message)
                               ELSE Str("Failed to generate summary"))

\* POST up to the provider call: parsing, content check, credential check.
\* done = TRUE: the handler has answered; done = FALSE: the provider is
\* called once with prompt.
Answered(resp) == [done |-> TRUE, response |-> resp, prompt |-> ""]
ValidateKeyFirst(body, apiKey) ==
    IF body.kind = "malformed" THEN Answered(Catch(Thrown(TRUE, "Unexpected token in JSON")))
    ELSE IF body.kind = "null" THEN Answered(Catch(Thrown(TRUE, "Cannot destructure property 'content' of null")))
    ELSE IF ~Truthy(apiKey) THEN Answered(Response(500, Undefined, Str("GEMINI_API_KEY is not configured")))
    ELSE IF ~Truthy(body.content) THEN Answered(Response(400, Undefined, Str("Content is required")))
    ELSE [done |-> FALSE, response |-> NoResponse, prompt |-> Prompt(body.content)]
ValidateNoKeyCheck(body, apiKey) ==
    IF body.kind = "malformed" THEN Answered(Catch(Thrown(TRUE, "Unexpected token in JSON")))
    ELSE IF body.kind = "null" THEN Answered(Catch(Thrown(TRUE, "Cannot destructure property 'content' of null")))
    ELSE IF ~Truthy(body.content) THEN Answered(Response(400, Undefined, Str("Content is required")))
    ELSE [done |-> FALSE, response |-> NoResponse, prompt |-> Prompt(body.content)]
Validate(body, apiKey) ==
    IF body.kind = "malformed" THEN Answered(Catch(Thrown(TRUE, "Unexpected token in JSON")))
    ELSE IF body.kind = "null" THEN Answered(Catch(Thrown(TRUE, "Cannot destructure property 'content' of null")))
    ELSE IF ~Truthy(body.content) THEN Answered(Response(400, Undefined, Str("Content is required")))
    ELSE IF ~Truthy(apiKey) THEN Answered(Response(500, Undefined, Str("GEMINI_API_KEY is not configured")))
    ELSE [done |-> FALSE, response |-> NoResponse, prompt |-> Prompt(body.content)]

\* POST after the provider call settled
SettlePrefixed(outcome) ==
    IF outcome.kind = "text"
    THEN Response(200, Str("Summary: " \o outcome.text), Undefined)
    ELSE Catch(outcome.thrown)
Settle(outcome) ==
    IF outcome.kind = "text"
    THEN Response(200, Str(outcome.text), Undefined)
    ELSE Catch(outcome.thrown)

\* the whole handler, for a caller that only sees the response
POST(body, apiKey, outcome) ==
    LET v == Validate(body, apiKey)
    IN IF v.done THEN v.response ELSE Settle(outcome)

VARIABLES
    apiKey,         \* process.env.GEMINI_API_KEY of the server process
    apc,            \* position of the POST handler: idle, received, awaiting, done
    request,        \* body of the request being handled
    prompt,         \* prompt handed to the provider ("" if none)
    providerCalls,  \* provider calls made for the current request
    outcome,        \* what the provider call did (NoOutcome if not settled)
    response,       \* response of the current request (NoResponse if none yet)
    served          \* requests received so far

apiVars == <<apiKey, apc, request, prompt, providerCalls, outcome, response, served>>

\* state of the mounted MemoDetailModal instance and of its environment
VARIABLES
    isOpen,         \* prop
    memo,           \* prop
    onClose,        \* prop (identity of the callback)
    summary,        \* useState('')
    isSummarizing,  \* useState(false)
    inflight,       \* fetches of handleSummarize that have not completed
    listener,       \* the keydown listener registered on document (its onClose)
    bodyOverflow,   \* document.body.style.overflow
    calls,          \* collaborator invocations made by the latest handler run
    lastEvent,      \* the latest event and its input
    summarySrc,     \* memo content the fetch that set summary had posted
    lastShown       \* the memo most recently rendered

modalVars == <<isOpen, memo, onClose, summary, isSummarizing, inflight,
               listener, bodyOverflow, calls, lastEvent, summarySrc, lastShown>>
vars == <<apiVars, modalVars>>

ApiInit ==
    /\ apiKey \in ApiKeys
    /\ apc = "idle"
    \* no request yet: request is read only once apc has left "idle"
    /\ request = [kind |-> "malformed", content |-> Undefined]
    /\ prompt = ""
    /\ providerCalls = 0
    /\ outcome = NoOutcome
    /\ response = NoResponse
    /\ served = 0

\* a client sends a POST; a new invocation of the handler starts
ApiReceive(body) ==
    /\ apc \in {"idle", "done"}
    /\ served < MaxRequests
    /\ apc' = "received"
    /\ request' = body
    /\ prompt' = ""
    /\ providerCalls' = 0
    /\ outcome' = NoOutcome
    /\ response' = NoResponse
    /\ served' = served + 1
    /\ UNCHANGED <<apiKey, modalVars>>

\* lines 6-30: parse, check content, check credential, call the provider
ApiValidate ==
    /\ apc = "received"
    /\ LET v == Validate(request, apiKey)
       IN IF v.done
          THEN /\ apc' = "done"
               /\ response' = v.response
               /\ UNCHANGED <<prompt, providerCalls>>
          ELSE /\ apc' = "awaiting"
               /\ prompt' = v.prompt
               /\ providerCalls' = providerCalls + 1
               /\ UNCHANGED response
    /\ UNCHANGED <<apiKey, request, outcome, served, modalVars>>

\* lines 30-40: the awaited provider call settles
ApiProviderSettled(o) ==
    /\ apc = "awaiting"
    /\ apc' = "done"
    /\ outcome' = o
    /\ response' = Settle(o)
    /\ UNCHANGED <<apiKey, request, prompt, providerCalls, served, modalVars>>

ApiNext ==
    \/ \E body \in Bodies : ApiReceive(body)
    \/ ApiValidate
    \/ \E o \in ProviderOutcomes : ApiProviderSettled(o)


\* ------------------------------------------------------------------------
\* The memo detail view
\* ------------------------------------------------------------------------
\* memo prop: null, or a Memo (only id and content matter to the view's logic)
Memo(i, c) == [id |-> i, content |-> c]
NullMemo == Memo("null", "")
Memos == {Memo("a", "x"), Memo("b", "y"), Memo("e", "")}

\* identities of the onClose prop the parent may pass
OnCloseIds == {"f", "g"}
NoListener == "none"

Keys == {"Escape", "Enter", "a"}
\* e.target of a click that reaches the backdrop's onClick
Targets == {"backdrop", "content"}

\* one invocation of a collaborator (prop callback or browser API)
Call(f, a) == [fn |-> f, arg |-> a]

ConfirmText == "Really delete this memo?"
AlertThrown == "An error occurred while requesting the summary."
AlertFailed == "Failed to generate the summary: "

\* the JSON body the view posts
BodyOf(content) == [kind |-> "value", content |-> Str(content)]

\* a fetch started by handleSummarize and not yet through its finally block
Fetch(c, st, r, j) == [content |-> c, stage |-> st, resp |-> r, isJson |-> j]

\* what the network can hand back instead of the endpoint's JSON answer
GatewayError == Response(502, Undefined, Undefined)

\* response.ok
Ok(resp) == resp.status >= 200 /\ resp.status <= 299

Event(t, a) == [type |-> t, arg |-> a]

ModalInit ==
    /\ isOpen = FALSE
    /\ memo = NullMemo
    /\ onClose \in OnCloseIds
    /\ summary = ""
    /\ isSummarizing = FALSE
    /\ inflight = <<>>
    /\ listener = NoListener
    /\ bodyOverflow = ""
    /\ calls = <<>>
    /\ lastEvent = Event("mount", "")
    /\ summarySrc = ""
    /\ lastShown = NullMemo

\* `if (!isOpen || !memo) return null`
Rendered == isOpen /\ memo # NullMemo

\* the summarize button is rendered iff !summary and enabled iff !isSummarizing
SummarizeEnabledNoDisable == summary = ""
SummarizeEnabled == summary = "" /\ ~isSummarizing

\* useEffect(..., [isOpen, handleKeyDown]) on a render with the given props;
\* handleKeyDown = useCallback(..., [onClose]) changes iff onClose does
useEffect(open2, onClose2) ==
    IF open2 # isOpen \/ onClose2 # onClose
    THEN /\ listener' = IF open2 THEN onClose2 ELSE NoListener
         /\ bodyOverflow' = IF open2 THEN "hidden" ELSE "unset"
         /\ summary' = IF open2 THEN "" ELSE summary
         /\ summarySrc' = IF open2 THEN "" ELSE summarySrc
    ELSE UNCHANGED <<listener, bodyOverflow, summary, summarySrc>>

\* the parent renders the modal with new props
Render(open2, memo2, onClose2, ev) ==
    /\ isOpen' = open2
    /\ memo' = memo2
    /\ onClose' = onClose2
    /\ useEffect(open2, onClose2)
    /\ lastShown' = IF open2 /\ memo2 # NullMemo THEN memo2 ELSE lastShown
    /\ calls' = <<>>
    /\ lastEvent' = ev
    /\ UNCHANGED <<isSummarizing, inflight, apiVars>>

ParentOpen(m, oc) ==
    /\ ~isOpen
    /\ Render(TRUE, m, oc, Event("open", m.id))

ParentClose(m, oc) ==
    /\ isOpen
    /\ m \in {memo, NullMemo}
    /\ Render(FALSE, m, oc, Event("close", ""))

ParentSwitch(m, oc) ==
    /\ isOpen
    /\ m # memo
    /\ Render(TRUE, m, oc, Event("switch", m.id))

ParentRerender(oc) ==
    /\ oc # onClose
    /\ Render(isOpen, memo, oc, Event("rerender", oc))

\* handlers: the collaborator invocations they make, in order
handleKeyDownAnyKey(key, oc) == <<Call("onClose", oc)>>
handleKeyDown(key, oc) ==
    IF key = "Escape" THEN <<Call("onClose", oc)>> ELSE <<>>

handleBackdropClick(target, oc) ==
    IF target = "backdrop" THEN <<Call("onClose", oc)>> ELSE <<>>

handleDeleteCloseFirst(m, confirmed, oc) ==
    IF m = NullMemo THEN <<>>
    ELSE IF confirmed
         THEN <<Call("confirm", ConfirmText), Call("onClose", oc), Call("onDelete", m.id)>>
         ELSE <<Call("confirm", ConfirmText)>>
handleDelete(m, confirmed, oc) ==
    IF m = NullMemo THEN <<>>
    ELSE IF confirmed
         THEN <<Call("confirm", ConfirmText), Call("onDelete", m.id), Call("onClose", oc)>>
         ELSE <<Call("confirm", ConfirmText)>>

handleEdit(m, oc) ==
    IF m # NullMemo THEN <<Call("onEdit", m.id), Call("onClose", oc)>> ELSE <<>>

\* an event whose handler only invokes collaborators
Handled(cs, ev) ==
    /\ calls' = cs
    /\ lastEvent' = ev
    /\ UNCHANGED <<isOpen, memo, onClose, summary, isSummarizing, inflight,
                   listener, bodyOverflow, summarySrc, lastShown, apiVars>>

\* a key is pressed anywhere in the document
KeyDown(key) ==
    Handled(IF listener # NoListener THEN handleKeyDown(key, listener) ELSE <<>>,
            Event("keydown", key))

\* a click bubbles to (or lands on) the backdrop div
BackdropClick(target) ==
    /\ Rendered
    /\ Handled(handleBackdropClick(target, onClose), Event("backdropClick", target))

CloseButtonClick ==
    /\ Rendered
    /\ Handled(<<Call("onClose", onClose)>>, Event("closeClick", ""))

DeleteClick(confirmed) ==
    /\ Rendered
    /\ Handled(handleDelete(memo, confirmed, onClose),
               Event("deleteClick", IF confirmed THEN "confirm" ELSE "cancel"))

EditClick ==
    /\ Rendered
    /\ Handled(handleEdit(memo, onClose), Event("editClick", ""))

\* handleSummarize up to its first await
SummarizeClick ==
    /\ Rendered
    /\ SummarizeEnabled
    /\ Len(inflight) < MaxInFlight
    /\ lastEvent' = Event("summarizeClick", memo.id)
    /\ IF memo.content = ""
       THEN /\ calls' = <<>>
            /\ UNCHANGED <<isSummarizing, inflight>>
       ELSE /\ isSummarizing' = TRUE
            /\ inflight' = Append(inflight, Fetch(memo.content, "fetch", NoResponse, FALSE))
            /\ calls' = <<Call("fetch", memo.content)>>
    /\ UNCHANGED <<isOpen, memo, onClose, summary, listener, bodyOverflow,
                   summarySrc, lastShown, apiVars>>

Remove(seq, i) == SubSeq(seq, 1, i - 1) \o SubSeq(seq, i + 1, Len(seq))

\* value of isSummarizing once the try statement is left with the given result
FinallyOnlyOnSuccess(result) == result # "ok"
Finally(result) == FALSE

\* the catch and finally blocks of handleSummarize
CatchAndFinally(i, ev) ==
    /\ calls' = <<Call("alert", AlertThrown)>>
    /\ isSummarizing' = Finally("thrown")
    /\ inflight' = Remove(inflight, i)
    /\ lastEvent' = ev
    /\ UNCHANGED <<isOpen, memo, onClose, summary, listener, bodyOverflow,
                   summarySrc, lastShown, apiVars>>

\* `await fetch(...)` rejects
FetchRejected(i) ==
    /\ i \in 1..Len(inflight)
    /\ inflight[i].stage = "fetch"
    /\ CatchAndFinally(i, Event("fetchRejected", inflight[i].content))

\* `await fetch(...)` resolves: the endpoint's answer, or a non-JSON answer
FetchResolved(i, resp, json) ==
    /\ i \in 1..Len(inflight)
    /\ inflight[i].stage = "fetch"
    /\ inflight' = [inflight EXCEPT ![i] = Fetch(@.content, "json", resp, json)]
    /\ calls' = <<>>
    /\ lastEvent' = Event("fetchResolved", inflight[i].content)
    /\ UNCHANGED <<isOpen, memo, onClose, summary, isSummarizing, listener,
                   bodyOverflow, summarySrc, lastShown, apiVars>>

FetchSettled(i) ==
    \/ FetchRejected(i)
    \/ \E o \in ProviderOutcomes :
          FetchResolved(i, POST(BodyOf(inflight[i].content), apiKey, o), TRUE)
    \/ FetchResolved(i, GatewayError, FALSE)

\* `await response.json()` settles and handleSummarize runs to its end
JsonSettled(i) ==
    /\ i \in 1..Len(inflight)
    /\ inflight[i].stage = "json"
    /\ LET r == inflight[i]
       IN IF ~r.isJson
          THEN CatchAndFinally(i, Event("jsonRejected", r.content))
          ELSE /\ IF Ok(r.resp)
                  THEN /\ summary' = r.resp.summary.s
                       /\ summarySrc' = r.content
                       /\ calls' = <<>>
                       /\ isSummarizing' = Finally("ok")
                  ELSE /\ calls' = <<Call("alert",
                                AlertFailed \o (IF Truthy(r.resp.error)
                                                THEN r.resp.error.s
                                                ELSE "Unknown error"))>>
                       /\ isSummarizing' = Finally("notOk")
                       /\ UNCHANGED <<summary, summarySrc>>
               /\ inflight' = Remove(inflight, i)
               /\ lastEvent' = Event("jsonResolved", r.content)
               /\ UNCHANGED <<isOpen, memo, onClose, listener, bodyOverflow,
                              lastShown, apiVars>>

AnyFetchSettled == \E i \in 1..MaxInFlight : FetchSettled(i)
AnyJsonSettled == \E i \in 1..MaxInFlight : JsonSettled(i)

Init == ApiInit /\ ModalInit

ViewNext ==
    \/ \E m \in Memos \cup {NullMemo}, oc \in OnCloseIds : ParentOpen(m, oc)
    \/ \E m \in Memos \cup {NullMemo}, oc \in OnCloseIds : ParentClose(m, oc)
    \/ \E oc \in OnCloseIds : ParentRerender(oc)
    \/ \E key \in Keys : KeyDown(key)
    \/ \E target \in Targets : BackdropClick(target)
    \/ CloseButtonClick
    \/ \E confirmed \in BOOLEAN : DeleteClick(confirmed)
    \/ EditClick
    \/ SummarizeClick
    \/ AnyFetchSettled
    \/ AnyJsonSettled

Next ==
    \/ ViewNext
    \/ \E m \in Memos \cup {NullMemo}, oc \in OnCloseIds : ParentSwitch(m, oc)

Spec == Init /\ [][Next]_vars
SpecApi == Init /\ [][ApiNext]_vars
SpecReopen == Init /\ [][ViewNext]_vars
SpecLive == Spec /\ WF_vars(AnyFetchSettled) /\ WF_vars(AnyJsonSettled)

\* ------------------------------------------------------------------------
\* Properties of the summarize endpoint (SpecApi)
\* ------------------------------------------------------------------------
\* the request being handled carries a body from which content is read
HasBody == apc # "idle" /\ request.kind = "value"
IsErrorBody(resp) == resp.error.kind = "string" /\ resp.error.s # "" /\ resp.summary = Undefined

C2_NoCredentialIs500 ==
    (HasBody /\ Truthy(request.content) /\ ~Truthy(apiKey)) =>
        /\ providerCalls = 0
        /\ apc # "awaiting"
        /\ outcome = NoOutcome
        /\ apc = "done" => (response.status = 500 /\ IsErrorBody(response))

C2_Witness ==
    /\ apc = "done" /\ request.kind = "value"
    /\ request.content = Str("x")
    /\ apiKey = Undefined
    /\ response.status = 500

\* the provider call of the current request has succeeded
ProviderSucceeded ==
    /\ apc = "done" /\ request.kind = "value"
    /\ Truthy(request.content) /\ Truthy(apiKey)
    /\ outcome.kind = "text"

\* C3 (as stated): when the provider call succeeds the endpoint returns 200
\* with a non-empty summary string that is exactly the provider's text.
C3_NonEmptyVerbatim ==
    ProviderSucceeded =>
        /\ response.status = 200
        /\ response.summary.kind = "string"
        /\ response.summary.s # ""
        /\ response.summary.s = outcome.text

\* C3 (amended): when the provider call succeeds the endpoint returns 200
\* with a summary string that is exactly the provider's text, empty if and
\* only if the provider's text is empty, and no error field.
C3_Verbatim ==
    ProviderSucceeded =>
        /\ response.status = 200
        /\ response.summary = Str(outcome.text)
        /\ response.error = Undefined

C3_Witness ==
    /\ ProviderSucceeded
    /\ outcome.text = "s1"
    /\ response.summary = Str("s1")

\* C4: the provider is called at most once per request; if that call fails
\* the answer has status 500 (never 200) and an error string, which is the
\* message of the thrown Error.
C4_SingleCallFailureIs500 ==
    /\ providerCalls <= 1
    /\ (apc = "done" /\ outcome.kind = "throw") =>
          /\ providerCalls = 1
          /\ response.status = 500
          /\ IsErrorBody(response)
          /\ outcome.thrown.isError => response.error.s = outcome.thrown.message

C4_Witness ==
    /\ apc = "done"
    /\ outcome.kind = "throw"
    /\ outcome.thrown = Thrown(TRUE, "quota")
    /\ response = Response(500, Undefined, Str("quota"))

\* ------------------------------------------------------------------------
\* Properties of the memo detail view (Spec, SpecReopen, SpecLive)
\* ------------------------------------------------------------------------
\* the view shows a summary
Displayed == Rendered /\ summary # ""

\* C5: showing the view for a memo different from the one previously shown
\* (after close and reopen, or by a memo change while open) clears the
\* summary, and a summary shown afterwards comes from a request for the
\* memo on display.
C5_NewMemoClearsSummary ==
    /\ [][(isOpen' /\ memo' # NullMemo /\ lastShown # NullMemo /\ memo' # lastShown)
            => summary' = ""]_vars
    /\ [](Displayed => summarySrc = memo.content)

\* positions of the invocations of f in the latest handler run
CallsOf(f) == {k \in 1..Len(calls) : calls[k].fn = f}

\* C6: while the view is open, Escape and a click on the backdrop itself
\* invoke the current onClose (once); any other key and a click whose target
\* is inside the content invoke nothing.
C6_EscapeAndBackdropClose ==
    /\ (lastEvent.type = "keydown" /\ isOpen) =>
          calls = IF lastEvent.arg = "Escape" THEN <<Call("onClose", onClose)>> ELSE <<>>
    /\ (lastEvent.type = "backdropClick") =>
          /\ Rendered
          /\ calls = IF lastEvent.arg = "backdrop" THEN <<Call("onClose", onClose)>> ELSE <<>>

C6_Witness ==
    /\ lastEvent = Event("keydown", "Escape")
    /\ isOpen
    /\ CallsOf("onClose") # {}

\* C7: a confirmed delete invokes onDelete exactly once, with the id of the
\* memo on display, and onClose once after it; a cancelled delete invokes
\* neither.
C7_DeleteThenClose ==
    (lastEvent.type = "deleteClick") =>
        /\ Rendered
        /\ IF lastEvent.arg = "confirm"
           THEN /\ Cardinality(CallsOf("onDelete")) = 1
                /\ Cardinality(CallsOf("onClose")) = 1
                /\ \A d \in CallsOf("onDelete") :
                      /\ calls[d].arg = memo.id
                      /\ \A c \in CallsOf("onClose") : d < c
           ELSE CallsOf("onDelete") = {} /\ CallsOf("onClose") = {}

C7_Witness ==
    /\ lastEvent = Event("deleteClick", "confirm")
    /\ memo = Memo("a", "x")
    /\ calls[2] = Call("onDelete", "a")
    /\ calls[3].fn = "onClose"

\* C8: at most one summarization request is in flight at any time; a step
\* that issues a request issues exactly one, from a state where
\* isSummarizing is false and no summary is displayed, and sets isSummarizing.
C8_SingleInFlight ==
    /\ [](Len(inflight) <= 1)
    /\ [](isSummarizing <=> Len(inflight) = 1)
    /\ [][Len(inflight') > Len(inflight) =>
            /\ Len(inflight') = Len(inflight) + 1
            /\ ~isSummarizing /\ summary = "" /\ Rendered
            /\ isSummarizing'
            /\ calls' = <<Call("fetch", memo.content)>>]_vars

\* a request for one memo is still in flight while another memo is shown
C8_Witness ==
    /\ Len(inflight) = 1
    /\ isSummarizing
    /\ Rendered
    /\ summary = ""
    /\ memo.content # "" /\ memo.content # inflight[1].content

\* a step that takes the only request through the end of handleSummarize
Completes == Len(inflight) = 1 /\ inflight' = <<>>
CompletesOk ==
    /\ Completes
    /\ inflight[1].stage = "json" /\ inflight[1].isJson /\ Ok(inflight[1].resp)

\* C9: every request that completes resets isSummarizing to false; an OK
\* response sets the summary to the response's summary without an alert; a
\* non-OK response or a thrown error leaves the summary unchanged and shows
\* one alert; and if requests complete, isSummarizing does not stay true.
C9_CompletionResets ==
    /\ [][Completes =>
            /\ isSummarizing' = FALSE
            /\ IF CompletesOk
               THEN /\ summary' = inflight[1].resp.summary.s
                    /\ CallsOf("alert")' = {}
               ELSE /\ summary' = summary
                    /\ Cardinality(CallsOf("alert")') = 1]_vars
    /\ [][summary' # summary => (CompletesOk \/ summary' = "")]_vars
    /\ (isSummarizing ~> ~isSummarizing)

C9_Witness ==
    /\ lastEvent.type \in {"fetchRejected", "jsonRejected"}
    /\ ~isSummarizing
    /\ CallsOf("alert") # {}

\* C10: a displayed non-empty summary was produced from the content of the
\* memo on display.
C10_SummaryMatchesMemo ==
    Displayed => summarySrc = memo.content
====
